---- MODULE Spec2Model ----
(***************************************************************************)
(* Gumbo OS: the test-and-test-and-set SpinLock of src/src/spinlock.rs.    *)
(*                                                                         *)
(* One SpinLock<T> instance shared by reference between NumContexts        *)
(* execution contexts (cores).  Every atomic operation on the flag is one  *)
(* step: the compare_exchange of line 58, the load of line 59, the store   *)
(* of line 68.  The accesses to the UnsafeCell through Deref / DerefMut    *)
(* are plain (non-atomic) accesses; what a context may read is decided by  *)
(* the orderings the code passes to the atomics (Acquire on a successful   *)
(* compare_exchange, Relaxed on a failed one and on the spin load, Release *)
(* on the store).                                                          *)
(***************************************************************************)
EXTENDS Integers, FiniteSets, Sequences

(* ------------------------------- bounds -------------------------------- *)

\* execution contexts sharing the lock by reference
NumContexts == 2

\* live guards one context may hold before it stops calling acquire
MaxGuards == 2

\* the values passed to new and written through a guard are 0..MaxItem
MaxItem == 1

\* the counters of successful acquires and of releases stop counting here
MaxCount == 2

\* increments each context performs in the increment workload
K == 2

\* SpinLock instances in the model of several locks
NumLocks == 2

\* the display buffer holds one of 0..MaxFill in every cell when _start begins
MaxFill == 1

\* cells of the display buffer in the model past the last one of the greeting
Beyond == 2

Contexts == 1..NumContexts

Items == 0..MaxItem

Locks == 1..NumLocks

\* every value the protected integer can take in the increment workload
Counts == 0..(MaxItem + NumContexts * K)

\* got[c] before context c has read anything through its guard
NoVal == -1

VARIABLES
    flag,       \* SpinLock.flag: TRUE is Locked
    data,       \* SpinLock.data: the contents of the UnsafeCell
    item,       \* the argument new was called with
    pc,         \* pc[c]: where context c is in acquire ("idle": not in it)
    guards,     \* guards[c]: live SpinLockGuards of this lock held by c
    got,        \* got[c]: the value c last read through a guard
    seen,       \* seen[c]: the latest write to data happens-before c's next access
    flagSeen,   \* the latest write to data happens-before the last Release store to flag
    acquires,   \* successful compare_exchanges so far (stops at MaxCount)
    releases,   \* calls of release so far (stops at MaxCount)
    stage,      \* stage[c]: position of c in the increment workload
    iters,      \* iters[c]: increments c has completed in the workload
    locks,      \* locks[l]: the fields flag and data of SpinLock instance l
    ats,        \* ats[c][l]: where context c is in acquire on instance l
    holds,      \* holds[c]: the instances context c holds a live guard of
    vga_buf,    \* vga_buf[k]: the byte at offset k of the display buffer
    i,          \* the index of the enumerate() of _start
    step,       \* where _start is: "next", "byte", "attr" or "loop"
    wrote       \* the offsets _start has written, in the order of the writes

loadVars == <<stage, iters>>

\* the state of the model of several locks
manyVars == <<locks, ats, holds>>

\* the state of the entry point
startVars == <<vga_buf, i, step, wrote>>

\* what the operations on the one shared lock leave alone
restVars == <<loadVars, manyVars, startVars>>

\* the state of the one shared lock and its callers
lockVars == <<flag, data, item, pc, guards, got, seen, flagSeen, acquires, releases>>

vars == <<flag, data, item, pc, guards, got, seen, flagSeen, acquires, releases, stage, iters,
          locks, ats, holds, vga_buf, i, step, wrote>>

\* a counter that stops at MaxCount
Bump(n) == IF n < MaxCount THEN n + 1 ELSE n

(* ------------------------------ SpinLock ------------------------------- *)

\* faulty variant: a lock constructed already Locked
new_locked(v) == [flag |-> TRUE, data |-> v]

\* SpinLock::new
new(v) == [flag |-> FALSE, data |-> v]

\* faulty variant: an unconditional swap in place of the compare-and-swap
swap(cur, expected, desired) == [ok |-> TRUE, val |-> desired]

\* faulty variant: a compare-and-swap that never succeeds
never_exchange(cur, expected, desired) == [ok |-> FALSE, val |-> cur]

\* AtomicBool::compare_exchange as acquire uses it (the strong form: it fails
\* only when the flag differs from what is expected)
compare_exchange(cur, expected, desired) ==
    IF cur = expected THEN [ok |-> TRUE, val |-> desired]
                      ELSE [ok |-> FALSE, val |-> cur]

\* faulty variant: the compare_exchange succeeds with Relaxed ordering
relaxed_success(mine, published) == mine

\* Ordering::Acquire on the successful compare_exchange: what the last
\* Release store published becomes visible to the acquirer
acquire_success(mine, published) == mine \/ published

\* faulty variant: the spin loop never sees the flag cleared
spin_forever(f) == TRUE

\* faulty variant: a plain test-and-set lock, which retries the
\* compare_exchange without waiting to read Unlocked
spin_never(f) == FALSE

\* the condition of the inner loop: self.flag.load(Ordering::Relaxed)
spin_while(f) == f

\* the call of acquire: the context enters the outer loop
acquire_call(c) ==
    /\ pc[c] = "idle"
    /\ guards[c] < MaxGuards
    /\ pc' = [pc EXCEPT ![c] = "cas"]
    /\ UNCHANGED <<flag, data, item, guards, got, seen, flagSeen, acquires, releases>>

\* the condition of the outer loop: one compare_exchange(false, true, Acquire,
\* Relaxed); on success acquire returns the guard, on failure it enters the
\* inner loop
acquire_cas(c) ==
    /\ pc[c] = "cas"
    /\ LET r == compare_exchange(flag, FALSE, TRUE) IN
        /\ flag' = r.val
        /\ IF r.ok
              THEN /\ pc' = [pc EXCEPT ![c] = "idle"]
                   /\ guards' = [guards EXCEPT ![c] = guards[c] + 1]
                   /\ seen' = [seen EXCEPT ![c] = acquire_success(seen[c], flagSeen)]
                   /\ acquires' = Bump(acquires)
              ELSE /\ pc' = [pc EXCEPT ![c] = "spin"]
                   /\ UNCHANGED <<guards, seen, acquires>>
    /\ UNCHANGED <<data, item, got, flagSeen, releases>>

\* one iteration of the inner loop: a Relaxed load of the flag; while it reads
\* Locked the context stays in the loop (hint::spin_loop), else it goes back
\* to the compare_exchange
acquire_spin(c) ==
    /\ pc[c] = "spin"
    /\ pc' = [pc EXCEPT ![c] = IF spin_while(flag) THEN "spin" ELSE "cas"]
    /\ UNCHANGED <<flag, data, item, guards, got, seen, flagSeen, acquires, releases>>

\* faulty variant: a release that leaves the flag as it is
release_nothing(c) ==
    /\ releases' = Bump(releases)
    /\ UNCHANGED <<flag, flagSeen>>

\* SpinLock::release: self.flag.store(false, Ordering::Release)
release(c) ==
    /\ flag' = FALSE
    /\ flagSeen' = seen[c]
    /\ releases' = Bump(releases)

\* release is pub: any context that has a reference to the lock can call it,
\* with or without a guard
release_call(c) ==
    /\ pc[c] = "idle"
    /\ release(c)
    /\ UNCHANGED <<data, item, pc, guards, got, seen, acquires>>

(* ---------------------------- SpinLockGuard ---------------------------- *)

\* a plain read of the UnsafeCell by context c: the latest write when it
\* happens-before the read, else a data race, which may yield any value
read(c, vals) == IF seen[c] THEN {data} ELSE vals

\* Deref::deref and a read through the reference
deref(c, vals) ==
    /\ pc[c] = "idle"
    /\ guards[c] > 0
    /\ \E v \in read(c, vals) : got' = [got EXCEPT ![c] = v]
    /\ UNCHANGED <<flag, data, item, pc, guards, seen, flagSeen, acquires, releases>>

\* DerefMut::deref_mut and a write of v through the reference
deref_mut(c, v) ==
    /\ pc[c] = "idle"
    /\ guards[c] > 0
    /\ data' = v
    /\ seen' = [d \in Contexts |-> d = c]
    /\ flagSeen' = FALSE
    /\ UNCHANGED <<flag, item, pc, guards, got, acquires, releases>>

\* Drop::drop: the guard goes out of scope and releases its lock
drop(c) ==
    /\ pc[c] = "idle"
    /\ guards[c] > 0
    /\ release(c)
    /\ guards' = [guards EXCEPT ![c] = guards[c] - 1]
    /\ got' = [got EXCEPT ![c] = NoVal]
    /\ UNCHANGED <<data, item, pc, seen, acquires>>

(* --------------------- the lock and its callers ------------------------ *)

\* the lock is constructed by new and then shared by reference: its
\* construction happens-before every context's first use
InitLock ==
    /\ item \in Items
    /\ flag = new(item).flag
    /\ data = new(item).data
    /\ pc = [c \in Contexts |-> "idle"]
    /\ guards = [c \in Contexts |-> 0]
    /\ got = [c \in Contexts |-> NoVal]
    /\ seen = [c \in Contexts |-> TRUE]
    /\ flagSeen = TRUE
    /\ acquires = 0
    /\ releases = 0

\* static GREETING: &[u8] = b"Welcome to Gumbo OS!"
GREETING == <<87, 101, 108, 99, 111, 109, 101, 32, 116, 111, 32, 71, 117, 109, 98, 111, 32, 79, 83, 33>>

\* the offsets of the display buffer in the model
Cells == 0..(2 * Len(GREETING) + Beyond - 1)

\* the entry point has not run yet and every cell of the buffer holds f
boot(f) ==
    /\ vga_buf = [k \in Cells |-> f]
    /\ i = 0
    /\ step = "next"
    /\ wrote = <<>>

\* the other instances, constructed and not yet used by anyone
InitMany ==
    /\ ats = [c \in Contexts |-> [l \in Locks |-> "idle"]]
    /\ holds = [c \in Contexts |-> {}]

Init ==
    /\ InitLock
    /\ stage = [c \in Contexts |-> "free"]
    /\ iters = [c \in Contexts |-> 0]
    /\ locks = [l \in Locks |-> new(item)]
    /\ InitMany
    /\ boot(0)

\* the callers of the lock: every context may at any time use any operation
\* the lock offers it

AcquireCall == \E c \in Contexts : acquire_call(c) /\ UNCHANGED restVars

AcquireCas == \E c \in Contexts : acquire_cas(c) /\ UNCHANGED restVars

AcquireSpin == \E c \in Contexts : acquire_spin(c) /\ UNCHANGED restVars

Deref == \E c \in Contexts : deref(c, Items) /\ UNCHANGED restVars

DerefMut == \E c \in Contexts, v \in Items : deref_mut(c, v) /\ UNCHANGED restVars

Drop == \E c \in Contexts : drop(c) /\ UNCHANGED restVars

ReleaseCall == \E c \in Contexts : release_call(c) /\ UNCHANGED restVars

Next ==
    \/ AcquireCall
    \/ AcquireCas
    \/ AcquireSpin
    \/ Deref
    \/ DerefMut
    \/ Drop
    \/ ReleaseCall

Spec == Init /\ [][Next]_vars

\* The callers as far as the flag goes: what a holder reads and writes
\* through its guard changes neither the flag nor any context's place in
\* acquire, so the critical sections are left empty here.
NextFlag ==
    \/ AcquireCall
    \/ AcquireCas
    \/ AcquireSpin
    \/ Drop
    \/ ReleaseCall

\* the contexts are cores that run in parallel: one that is inside acquire
\* keeps executing its loops.  Nothing obliges a caller to call acquire or to
\* drop its guard.
Fairness ==
    \A c \in Contexts :
        /\ WF_vars(acquire_cas(c) /\ UNCHANGED restVars)
        /\ WF_vars(acquire_spin(c) /\ UNCHANGED restVars)

FairSpec == Init /\ [][NextFlag]_vars /\ Fairness

(* ----------------------- the increment workload ------------------------ *)

\* every context runs K times: acquire; read the integer through the guard;
\* write back the value read plus one; drop the guard

InitIncr ==
    /\ InitLock
    /\ stage = [c \in Contexts |-> "acquire"]
    /\ iters = [c \in Contexts |-> 0]
    /\ locks = [l \in Locks |-> new(item)]
    /\ InitMany
    /\ boot(0)

IncrAcquire ==
    \E c \in Contexts :
        /\ stage[c] = "acquire"
        /\ \/ acquire_call(c)
           \/ acquire_cas(c)
           \/ acquire_spin(c)
        /\ stage' = [stage EXCEPT ![c] = IF guards'[c] > 0 THEN "read" ELSE "acquire"]
        /\ UNCHANGED <<iters, manyVars, startVars>>

IncrRead ==
    \E c \in Contexts :
        /\ stage[c] = "read"
        /\ deref(c, Counts)
        /\ stage' = [stage EXCEPT ![c] = "write"]
        /\ UNCHANGED <<iters, manyVars, startVars>>

IncrWrite ==
    \E c \in Contexts :
        /\ stage[c] = "write"
        /\ deref_mut(c, got[c] + 1)
        /\ stage' = [stage EXCEPT ![c] = "drop"]
        /\ UNCHANGED <<iters, manyVars, startVars>>

IncrDrop ==
    \E c \in Contexts :
        /\ stage[c] = "drop"
        /\ drop(c)
        /\ iters' = [iters EXCEPT ![c] = iters[c] + 1]
        /\ stage' = [stage EXCEPT ![c] = IF iters[c] + 1 = K THEN "done" ELSE "acquire"]
        /\ UNCHANGED <<manyVars, startVars>>

NextIncr ==
    \/ IncrAcquire
    \/ IncrRead
    \/ IncrWrite
    \/ IncrDrop

SpecIncr == InitIncr /\ [][NextIncr]_vars

(* ------------------------ a single caller ------------------------------ *)

\* one context is the only one that runs (a single-threaded caller)
Solo == CHOOSE c \in Contexts : TRUE

SoloAcquireCall == acquire_call(Solo) /\ UNCHANGED restVars

SoloAcquireCas == acquire_cas(Solo) /\ UNCHANGED restVars

SoloAcquireSpin == acquire_spin(Solo) /\ UNCHANGED restVars

SoloDeref == deref(Solo, Items) /\ UNCHANGED restVars

SoloDerefMut == \E v \in Items : deref_mut(Solo, v) /\ UNCHANGED restVars

SoloDrop == drop(Solo) /\ UNCHANGED restVars

SoloReleaseCall == release_call(Solo) /\ UNCHANGED restVars

SoloNext ==
    \/ SoloAcquireCall
    \/ SoloAcquireCas
    \/ SoloAcquireSpin
    \/ SoloDeref
    \/ SoloDerefMut
    \/ SoloDrop
    \/ SoloReleaseCall

SoloSpec == Init /\ [][SoloNext]_vars

(* ------------------------ faults in the callers ------------------------ *)

\* the panic handler of main.rs: loop {} -- the faulting context never
\* returns, nothing unwinds, and the guards it holds are never dropped
panic(c) ==
    /\ pc[c] = "idle"
    /\ pc' = [pc EXCEPT ![c] = "halted"]
    /\ UNCHANGED <<flag, data, item, guards, got, seen, flagSeen, acquires, releases>>

Panic == \E c \in Contexts : panic(c) /\ UNCHANGED restVars

PanicNext ==
    \/ AcquireCall
    \/ AcquireCas
    \/ AcquireSpin
    \/ Deref
    \/ DerefMut
    \/ Drop
    \/ ReleaseCall
    \/ Panic

PanicSpec == Init /\ [][PanicNext]_vars

(* ----------------------- an adversarial schedule ----------------------- *)

\* One schedule of the contexts among those the program allows.  The first
\* MaxCount acquisitions go to whoever gets there; from then on the context
\* Starved gets to run its compare_exchange only at moments when the lock is
\* held, while the other contexts take the lock, drop it and come back for
\* it.  Every step is a step of acquire, DerefMut or Drop as written above;
\* the schedule only chooses when each context runs.

Starved == CHOOSE c \in Contexts : TRUE

Others == Contexts \ {Starved}

StarvedCall == guards[Starved] = 0 /\ acquire_call(Starved) /\ UNCHANGED restVars

StarvedCas == (flag \/ acquires < MaxCount) /\ acquire_cas(Starved) /\ UNCHANGED restVars

StarvedSpin == acquire_spin(Starved) /\ UNCHANGED restVars

StarvedDrop == drop(Starved) /\ UNCHANGED restVars

OtherCall == \E c \in Others : guards[c] = 0 /\ acquire_call(c) /\ UNCHANGED restVars

OtherCas == \E c \in Others : acquire_cas(c) /\ UNCHANGED restVars

OtherSpin == \E c \in Others : acquire_spin(c) /\ UNCHANGED restVars

OtherDrop == \E c \in Others : drop(c) /\ UNCHANGED restVars

HolderWrite == \E c \in Contexts, v \in Items : deref_mut(c, v) /\ UNCHANGED restVars

StarveNext ==
    \/ HolderWrite
    \/ StarvedCall
    \/ StarvedCas
    \/ StarvedSpin
    \/ StarvedDrop
    \/ OtherCall
    \/ OtherCas
    \/ OtherSpin
    \/ OtherDrop

\* the schedule keeps every context running: Starved calls acquire and goes
\* round its loops for ever, the others keep calling acquire and dropping
\* their guards
StarveSchedule ==
    /\ WF_vars(StarvedCall)
    /\ SF_vars(StarvedCas)
    /\ SF_vars(StarvedSpin)
    /\ WF_vars(StarvedDrop)
    /\ \A c \in Others :
        /\ WF_vars(guards[c] = 0 /\ acquire_call(c) /\ UNCHANGED restVars)
        /\ WF_vars(acquire_cas(c) /\ UNCHANGED restVars)
        /\ WF_vars(acquire_spin(c) /\ UNCHANGED restVars)
        /\ WF_vars(drop(c) /\ UNCHANGED restVars)

StarveSpec == Init /\ [][StarveNext]_vars /\ StarveSchedule

(* --------------------------- several locks ----------------------------- *)

\* NumLocks instances of SpinLock, each with its own flag and its own
\* UnsafeCell (the fields of the struct), shared by the same contexts.  A
\* context is in one call of acquire at a time and does not call acquire on
\* an instance it holds a guard of; it may call it while holding guards of
\* other instances.  The operations are those of the guard discipline:
\* acquire, access through the guard, drop of the guard.

\* faulty variant: one flag shared by all the instances
store_shared(ls, l, v) == [k \in DOMAIN ls |-> [ls[k] EXCEPT !.flag = v]]

\* a store to self.flag, the flag field of instance l
store(ls, l, v) == [ls EXCEPT ![l].flag = v]

\* the call of acquire on instance l
many_acquire_call(c, l) ==
    /\ \A k \in Locks : ats[c][k] = "idle"
    /\ l \notin holds[c]
    /\ ats' = [ats EXCEPT ![c][l] = "cas"]
    /\ UNCHANGED <<locks, holds>>

\* the compare_exchange on the flag of instance l
many_acquire_cas(c, l) ==
    /\ ats[c][l] = "cas"
    /\ LET r == compare_exchange(locks[l].flag, FALSE, TRUE) IN
        /\ locks' = store(locks, l, r.val)
        /\ IF r.ok
              THEN /\ ats' = [ats EXCEPT ![c][l] = "idle"]
                   /\ holds' = [holds EXCEPT ![c] = holds[c] \cup {l}]
              ELSE /\ ats' = [ats EXCEPT ![c][l] = "spin"]
                   /\ UNCHANGED holds

\* one iteration of the inner loop on the flag of instance l
many_acquire_spin(c, l) ==
    /\ ats[c][l] = "spin"
    /\ ats' = [ats EXCEPT ![c][l] = IF spin_while(locks[l].flag) THEN "spin" ELSE "cas"]
    /\ UNCHANGED <<locks, holds>>

\* a write of v through the guard of instance l
many_deref_mut(c, l, v) ==
    /\ \A k \in Locks : ats[c][k] = "idle"
    /\ l \in holds[c]
    /\ locks' = [locks EXCEPT ![l].data = v]
    /\ UNCHANGED <<ats, holds>>

\* the guard of instance l goes out of scope and releases that instance
many_drop(c, l) ==
    /\ \A k \in Locks : ats[c][k] = "idle"
    /\ l \in holds[c]
    /\ locks' = store(locks, l, FALSE)
    /\ holds' = [holds EXCEPT ![c] = holds[c] \ {l}]
    /\ UNCHANGED ats

ManyAcquireCall == \E c \in Contexts, l \in Locks : many_acquire_call(c, l) /\ UNCHANGED <<lockVars, loadVars, startVars>>

ManyAcquireCas == \E c \in Contexts, l \in Locks : many_acquire_cas(c, l) /\ UNCHANGED <<lockVars, loadVars, startVars>>

ManyAcquireSpin == \E c \in Contexts, l \in Locks : many_acquire_spin(c, l) /\ UNCHANGED <<lockVars, loadVars, startVars>>

ManyDerefMut ==
    \E c \in Contexts, l \in Locks, v \in Items :
        many_deref_mut(c, l, v) /\ UNCHANGED <<lockVars, loadVars, startVars>>

ManyDrop == \E c \in Contexts, l \in Locks : many_drop(c, l) /\ UNCHANGED <<lockVars, loadVars, startVars>>

ManyNext ==
    \/ ManyAcquireCall
    \/ ManyAcquireCas
    \/ ManyAcquireSpin
    \/ ManyDerefMut
    \/ ManyDrop

ManySpec == Init /\ [][ManyNext]_vars

(* --------------------------- the entry point --------------------------- *)

\* _start of src/src/main.rs: it writes the greeting to the display buffer,
\* one byte and one attribute per character, and then loops for ever.  The
\* offsets are relative to vga_buf, the start of the buffer.

\* the attribute byte written after each character: 0xb
ATTRIBUTE == 11

\* faulty variant: the attribute is written over the character
same_offset(n) == n * 2

\* vga_buf.offset(i as isize * 2), where the character goes
byte_offset(n) == n * 2

\* vga_buf.offset(i as isize * 2 + 1), where the attribute goes
attr_offset(n) == n * 2 + 1

\* GREETING.iter().enumerate(): the next (i, &byte), or the end of the for loop
start_next ==
    /\ step = "next"
    /\ step' = IF i < Len(GREETING) THEN "byte" ELSE "loop"
    /\ UNCHANGED <<vga_buf, i, wrote>>

\* *vga_buf.offset(i as isize * 2) = byte
start_byte ==
    /\ step = "byte"
    /\ vga_buf' = [vga_buf EXCEPT ![byte_offset(i)] = GREETING[i + 1]]
    /\ wrote' = Append(wrote, byte_offset(i))
    /\ step' = "attr"
    /\ UNCHANGED i

\* *vga_buf.offset(i as isize * 2 + 1) = 0xb, the end of the loop body
start_attr ==
    /\ step = "attr"
    /\ vga_buf' = [vga_buf EXCEPT ![attr_offset(i)] = ATTRIBUTE]
    /\ wrote' = Append(wrote, attr_offset(i))
    /\ i' = i + 1
    /\ step' = "next"

\* loop {}
start_loop ==
    /\ step = "loop"
    /\ UNCHANGED startVars

StartNextItem == start_next /\ UNCHANGED <<lockVars, loadVars, manyVars>>

StartByte == start_byte /\ UNCHANGED <<lockVars, loadVars, manyVars>>

StartAttr == start_attr /\ UNCHANGED <<lockVars, loadVars, manyVars>>

StartLoop == start_loop /\ UNCHANGED <<lockVars, loadVars, manyVars>>

InitStart ==
    /\ InitLock
    /\ stage = [c \in Contexts |-> "free"]
    /\ iters = [c \in Contexts |-> 0]
    /\ locks = [l \in Locks |-> new(item)]
    /\ InitMany
    /\ \E f \in 0..MaxFill : boot(f)

StartNext ==
    \/ StartNextItem
    \/ StartByte
    \/ StartAttr
    \/ StartLoop

\* the processor keeps executing _start
StartSpec == InitStart /\ [][StartNext]_vars /\ WF_vars(StartNext)

(* ------------------------------ properties ----------------------------- *)

\* the live guards of the lock, over all contexts
LiveGuards == Cardinality({p \in Contexts \X (1..MaxGuards) : p[2] <= guards[p[1]]})

\* nothing has been done to the lock since new returned it
Fresh == acquires = 0 /\ releases = 0

\* C1: at most one guard of the lock is alive in every reachable state.
MutualExclusion == LiveGuards <= 1

\* C2: the flag is Locked exactly when a live guard of the lock exists.
FlagIffGuard == flag <=> LiveGuards > 0

\* C3: the flag goes from Locked to Unlocked only by the drop of a live guard.
OnlyDropUnlocks == [][(flag /\ ~flag') => \E c \in Contexts : drop(c)]_vars

\* C4: release is performed once per successful acquire: at every point the
\* releases are at most the successful acquires and at most one behind them
\* (stated while both counters still count).
ReleaseOncePerAcquire ==
    (acquires < MaxCount /\ releases < MaxCount)
        => (releases <= acquires /\ acquires - releases <= 1)

\* C5: a read through a guard yields the value the most recent write left (the
\* value given to new when nothing was written).
ReadsLatestWrite ==
    [][\A c \in Contexts : deref(c, Items) => got'[c] = data]_vars

\* C6: once every context has finished its K increments the protected integer
\* is its initial value plus NumContexts * K.
NoLostUpdates ==
    (\A c \in Contexts : stage[c] = "done") => data = item + NumContexts * K

\* C6 witness: every context has finished the workload
AllDone == \A c \in Contexts : stage[c] = "done"

\* C7: the drop of a guard leaves the flag Unlocked, a compare_exchange that
\* finds it Unlocked returns the guard, and a context at that compare_exchange
\* gets to return unless the lock is taken first.
ReleaseOnExit ==
    /\ [][\A c \in Contexts : drop(c) => ~flag']_vars
    /\ [][\A c \in Contexts :
            (~flag /\ acquire_cas(c)) => (pc'[c] = "idle" /\ guards'[c] = guards[c] + 1)]_vars
    /\ \A c \in Contexts : (pc[c] = "cas" /\ ~flag) ~> (pc[c] = "idle" \/ flag)

\* C7 witness: one guard was dropped and a later acquire has returned a guard
AcquiredAfterDrop == releases = 1 /\ acquires >= 2 /\ LiveGuards = 1

\* C8: a context that holds a live guard of the lock never obtains a second
\* one (checked with a single running context: nobody else releases).
NonReentrant == [][guards[Solo] > 0 => guards'[Solo] <= guards[Solo]]_vars

\* C9: a lock fresh from new is Unlocked and holds the given value, no context
\* is in the spin loop before the first compare_exchange on it, and that
\* compare_exchange returns the guard without entering the spin loop.
FreshLockAcquires ==
    /\ [](Fresh => (~flag /\ data = item /\ \A c \in Contexts : pc[c] # "spin"))
    /\ [][\A c \in Contexts :
            (Fresh /\ acquire_cas(c)) => (pc'[c] = "idle" /\ guards'[c] = 1 /\ flag')]_vars

\* C9 witness: the first acquire on the lock has returned its guard
FirstAcquireDone == acquires = 1 /\ releases = 0 /\ LiveGuards = 1

\* every holder eventually drops its guard: every context is again and again
\* without one
EveryHolderDrops == \A c \in Contexts : []<>(guards[c] = 0)

\* C10 as claimed, taken on the behaviours in which the lock is only ever
\* unlocked by the drop of its guard: if every holder eventually drops its
\* guard, every call of acquire eventually returns (the caller is again and
\* again outside acquire).
AcquireAlwaysReturns ==
    ([]FlagIffGuard /\ EveryHolderDrops)
        => \A c \in Contexts : []<>(pc[c] = "idle")

\* C10 amended: if every holder eventually drops its guard, a call of acquire
\* eventually returns unless other contexts hold the lock again and again.
AcquireReturnsUnlessOvertaken ==
    EveryHolderDrops =>
        \A c \in Contexts :
            \/ []<>(pc[c] = "idle")
            \/ []<>(\E d \in Contexts \ {c} : guards[d] > 0)

\* C10 witness: a context waits in the spin loop and the holder has dropped
\* its guard
WaiterAfterRelease ==
    \E c \in Contexts : pc[c] = "spin" /\ ~flag /\ releases >= 1 /\ LiveGuards = 0

\* C11: while a guard of the lock is alive (its holder has not dropped it), no
\* call of acquire returns a guard.
UnboundedWait ==
    [][\A c \in Contexts :
        (LiveGuards > 0 /\ acquire_cas(c)) => guards'[c] = guards[c]]_vars

\* C13: every access to the protected value through Deref or DerefMut happens
\* while the flag is Locked and the accessing context holds the only live
\* guard.
GuardedAccess ==
    [][\A c \in Contexts :
        (deref(c, Items) \/ \E v \in Items : deref_mut(c, v))
            => (flag /\ guards[c] > 0 /\ LiveGuards = 1)]_vars

\* C15: a failed compare_exchange sends the context into the spin loop and
\* changes neither the flag nor the protected value; in the spin loop the
\* context only loads the flag, which changes nothing, and it goes back to the
\* compare_exchange only on a load that reads Unlocked.
TtasOrdering ==
    /\ [][\A c \in Contexts :
            (flag /\ acquire_cas(c)) => (pc'[c] = "spin" /\ UNCHANGED <<flag, data, guards>>)]_vars
    /\ [][\A c \in Contexts :
            acquire_spin(c) => UNCHANGED <<flag, data, guards>>]_vars
    /\ [][\A c \in Contexts :
            pc[c] = "spin" =>
                /\ pc'[c] \in {"spin", "cas"}
                /\ guards'[c] = guards[c]
                /\ (pc'[c] = "cas" => ~flag)]_vars

\* C15 witness: a context is in the spin loop while the lock is held
SpinningWhileLocked == \E c \in Contexts : pc[c] = "spin" /\ flag /\ LiveGuards = 1

\* C16: a context gains a guard only by its own compare_exchange that takes the
\* flag from Unlocked to Locked; every such transition gives exactly one guard,
\* to the context that made it; a context in the spin loop gains none.
GuardOnlyByOwnCas ==
    /\ [][\A c \in Contexts :
            guards'[c] > guards[c] => (~flag /\ flag' /\ acquire_cas(c))]_vars
    /\ [][(~flag /\ flag') =>
            \E c \in Contexts :
                /\ acquire_cas(c)
                /\ guards'[c] = guards[c] + 1
                /\ \A d \in Contexts \ {c} : guards'[d] = guards[d]]_vars
    /\ [][\A c \in Contexts : pc[c] = "spin" => guards'[c] <= guards[c]]_vars

\* C16 witness: one context owns the guard while another, back from the spin
\* loop, is at its compare_exchange
OwnerAndRetrier ==
    \E c, d \in Contexts :
        /\ guards[c] = 1
        /\ guards[d] = 0
        /\ pc[d] = "cas"
        /\ flag
        /\ releases >= 1

\* C17: whenever the flag is Unlocked and some context is executing acquire,
\* some context eventually takes the lock.
LockProgress == (~flag /\ \E c \in Contexts : pc[c] # "idle") ~> flag

\* C17 witness: the lock was released and taken again while a context waits in
\* the spin loop
TakenWhileWaited ==
    \E c, d \in Contexts :
        /\ pc[c] = "spin"
        /\ guards[d] = 1
        /\ flag
        /\ releases >= 1

\* C14: a context that faulted while holding a guard stays halted with its
\* guard, and from then on the flag stays Locked and no context obtains a
\* guard.
FaultKeepsLocked ==
    /\ [][((\E c \in Contexts : pc[c] = "halted" /\ guards[c] > 0) /\ flag)
            => (flag' /\ \A d \in Contexts : guards'[d] <= guards[d])]_vars
    /\ [][\A c \in Contexts :
            pc[c] = "halted" => (pc'[c] = "halted" /\ guards'[c] = guards[c])]_vars

\* C12: starvation of a waiter is possible.  On the adversarial schedule,
\* whose every step is a step of the program and on which every core inside
\* acquire keeps running (Fairness), the lock is released and taken again for
\* ever by other contexts while Starved, from its last call of acquire on,
\* goes round its loops for ever and never obtains a guard.
WaiterStarves ==
    /\ [][Next]_vars
    /\ Fairness
    /\ <>[](guards[Starved] = 0)
    /\ []<>(pc[Starved] = "cas")
    /\ []<>(pc[Starved] = "spin")
    /\ []<>(LiveGuards = 0)
    /\ []<>(\E d \in Others : guards[d] > 0)

\* C12 witness: Starved is in the spin loop while the lock, released before,
\* is held again by another context
OvertakenWaiter ==
    /\ pc[Starved] = "spin"
    /\ guards[Starved] = 0
    /\ releases = MaxCount
    /\ acquires = MaxCount
    /\ \E d \in Others : guards[d] = 1

\* C18: lock instances are independent.  A step of acquire, of a write
\* through a guard or of a guard's drop on one instance leaves the flag and
\* the value of every other instance as they were; and a compare_exchange on
\* an Unlocked instance succeeds whatever guards of other instances the
\* context or anybody else holds, while one on a Locked instance fails.
Independence ==
    /\ [][\A c \in Contexts, l \in Locks :
            (\/ many_acquire_call(c, l)
             \/ many_acquire_cas(c, l)
             \/ many_acquire_spin(c, l)
             \/ (\E v \in Items : many_deref_mut(c, l, v))
             \/ many_drop(c, l))
                => \A k \in Locks \ {l} : locks'[k] = locks[k]]_vars
    /\ [][\A c \in Contexts, l \in Locks :
            many_acquire_cas(c, l) =>
                /\ (l \in holds'[c]) = ~locks[l].flag
                /\ holds'[c] \ {l} = holds[c] \ {l}]_vars

\* C18 witness: a context holds guards of two instances at once, both
\* Locked, having taken the second while it held the first
HoldsTwo ==
    \E c \in Contexts : \E l, k \in holds[c] :
        /\ l # k
        /\ locks[l].flag
        /\ locks[k].flag

\* C19: _start writes the offsets 0, 1, 2, ... in this order, so that for
\* each index n of the greeting, in increasing order, offset 2n receives the
\* greeting byte n and then offset 2n+1 the attribute 0xb; it writes no offset
\* at or beyond twice the length of the greeting; it reaches the final loop
\* and stays in it for ever, changing nothing; and it never touches a lock.
StartWritesGreeting ==
    /\ [](\A k \in 1..Len(wrote) : wrote[k] = k - 1)
    /\ [](Len(wrote) <= 2 * Len(GREETING))
    /\ [](\A n \in 0..(Len(GREETING) - 1) :
            /\ 2 * n < Len(wrote) => vga_buf[2 * n] = GREETING[n + 1]
            /\ 2 * n + 1 < Len(wrote) => vga_buf[2 * n + 1] = ATTRIBUTE)
    /\ [](\A k \in Cells : k >= Len(wrote) => vga_buf[k] \in 0..MaxFill)
    /\ [](step = "loop" => Len(wrote) = 2 * Len(GREETING))
    /\ [][step = "loop" => UNCHANGED vars]_vars
    /\ <>[](step = "loop")
    /\ [][UNCHANGED <<lockVars, manyVars>>]_vars
    /\ [](acquires = 0 /\ \A c \in Contexts : pc[c] = "idle" /\ guards[c] = 0 /\ holds[c] = {})

\* C19 witness: _start is in its final loop with the whole greeting on display
GreetingShown ==
    /\ step = "loop"
    /\ i = Len(GREETING)
    /\ \A n \in 0..(Len(GREETING) - 1) :
        vga_buf[2 * n] = GREETING[n + 1] /\ vga_buf[2 * n + 1] = ATTRIBUTE

====
